---------------------------- MODULE Spec2Model ----------------------------
(***************************************************************************)
(* A model of converter.py: the conversion of a semicolon-separated CSV of *)
(* column metadata into a metadata YAML document and a GDPR YAML document. *)
(*                                                                         *)
(* Representation.  A Python str is a sequence of one-character strings,   *)
(* so that substring search, lower() and the f-string of the source key    *)
(* are computed character by character.  A value that is not a str is a    *)
(* one-element sequence holding a token of several letters: NaN (pandas'   *)
(* missing value), True and False (a parsed boolean).  A Python local that *)
(* is not bound yet is <<>>, a bound one is <<value>>.                     *)
(***************************************************************************)
EXTENDS Integers, Sequences, FiniteSets, TLC

VARIABLES
    fs,             \* the file system: path -> [exists, content]
    pc,             \* main: index of the statement about to run
    step,           \* position inside the statement at pc
    raised,         \* <<>>, or <<exception, function>> once the run has aborted
    df,             \* main's local df
    metadata_yaml,  \* main's local metadata_yaml
    gdpr_yaml,      \* main's local gdpr_yaml
    grouped,        \* process_source: the groups still to iterate
    sources,        \* process_source: the source cache, key -> descriptor
    tables,         \* process_source: the list built so far
    arg,            \* a single function call: its arguments
    ret             \* a single function call: <<>>, or <<result>>

vars == <<fs, pc, step, raised, df, metadata_yaml, gdpr_yaml,
          grouped, sources, tables, arg, ret>>

---------------------------------------------------------------------------
(* Bounds of the model. *)

\* The longest input table (rows of the CSV, rows of one group).
MaxRows == 2

\* The most tokens a raw data type string is built from.
MaxParts == 2

---------------------------------------------------------------------------
(* Python values. *)

NaN == <<"NaN">>
True == <<"True">>
False == <<"False">>

isna(v) == v = NaN
notna(v) == v # NaN

\* The printable ASCII characters in code point order, from 32 (space); the
\* grave accent (96) is spelled out, as the lexer does not take it in a string.
Printable ==
    <<" ", "!", "\"", "#", "$", "%", "&", "'", "(", ")", "*", "+", ",", "-",
      ".", "/", "0", "1", "2", "3", "4", "5", "6", "7", "8", "9", ":", ";",
      "<", "=", ">", "?", "@", "A", "B", "C", "D", "E", "F", "G", "H", "I",
      "J", "K", "L", "M", "N", "O", "P", "Q", "R", "S", "T", "U", "V", "W",
      "X", "Y", "Z", "[", "\\", "]", "^", "_", "grave", "a", "b", "c", "d", "e",
      "f", "g", "h", "i", "j", "k", "l", "m", "n", "o", "p", "q", "r", "s",
      "t", "u", "v", "w", "x", "y", "z", "{", "|", "}", "~">>

\* ord(c) of a printable ASCII character.
ord(c) == 31 + CHOOSE i \in 1..Len(Printable) : Printable[i] = c

chr(n) == Printable[n - 31]

\* str.lower() on one character: A..Z (65..90) move up by 32.
LowerChar(c) == IF ord(c) >= 65 /\ ord(c) <= 90 THEN chr(ord(c) + 32) ELSE c

\* str.lower()
lower(s) == [i \in 1..Len(s) |-> LowerChar(s[i])]

\* key in s, for two strs: key occurs as a contiguous substring of s.
In(key, s) ==
    \E i \in 1..(Len(s) - Len(key) + 1) : SubSeq(s, i, i + Len(key) - 1) = key

\* a < b for two strs: lexicographic by code point.
StrLess(a, b) ==
    \E i \in 1..(Len(b)) :
        /\ i <= Len(a) + 1
        /\ SubSeq(a, 1, i - 1) = SubSeq(b, 1, i - 1)
        /\ (i = Len(a) + 1 \/ ord(a[i]) < ord(b[i]))

\* a < b for two tuples of strs of one length.
TupleLess(a, b) ==
    \E i \in 1..Len(a) :
        /\ \A j \in 1..(i - 1) : a[j] = b[j]
        /\ StrLess(a[i], b[i])


---------------------------------------------------------------------------
(* read_csv: pandas' parse of the cells of the file. *)

Columns ==
    {"table_name", "COLUMN_NAME", "DATA_TYPE", "DATA_FORMAT", "NULLABLE",
     "FILE_NAME", "DECIMAL_SEPARATOR", "FILE_TYPE", "GDPR_FLAG"}

\* Cell texts pandas reads as a missing value (of its default list, the ones
\* the inputs here can hold).
na_values == {<<>>, <<"N", "A">>, <<"n", "u", "l", "l">>}

true_values == {<<"T", "r", "u", "e">>, <<"T", "R", "U", "E">>, <<"t", "r", "u", "e">>}

false_values ==
    {<<"F", "a", "l", "s", "e">>, <<"F", "A", "L", "S", "E">>, <<"f", "a", "l", "s", "e">>}

\* One cell of a column that pandas keeps as text.
parse_cell(text) == IF text \in na_values THEN NaN ELSE text

\* One cell of a column whose cells are all booleans or missing: the column
\* becomes bool, or object holding True, False and NaN.
parse_bool_cell(text) ==
    IF text \in true_values THEN True
    ELSE IF text \in false_values THEN False
    ELSE NaN

\* Whether pandas converts column col of the cells to booleans.
is_bool_column(cells, col) ==
    \A i \in 1..Len(cells) :
        cells[i][col] \in true_values \cup false_values \cup na_values

\* pd.read_csv(file_path, sep=';') on the rows of cells of a readable file.
read_csv(cells) ==
    [i \in 1..Len(cells) |->
        [col \in Columns |->
            IF is_bool_column(cells, col)
            THEN parse_bool_cell(cells[i][col])
            ELSE parse_cell(cells[i][col])]]

---------------------------------------------------------------------------
(* map_data_type *)

\* A variant of type_mapping: the keys in alphabetical order.
type_mapping_sorted ==
    << <<(<<"D", "A", "T", "E">>), "date">>,
       <<(<<"N", "U", "M", "B", "E", "R">>), "decimal(38,0)">>,
       <<(<<"V", "A", "R", "C", "H", "A", "R", "2">>), "string">> >>

type_mapping ==
    << <<(<<"V", "A", "R", "C", "H", "A", "R", "2">>), "string">>,
       <<(<<"N", "U", "M", "B", "E", "R">>), "decimal(38,0)">>,
       <<(<<"D", "A", "T", "E">>), "date">> >>

\* next((standard for key, standard in items if key in data_type), default)
RECURSIVE next_standard(_, _, _)
next_standard(items, data_type, default) ==
    IF items = <<>> THEN default
    ELSE IF In(Head(items)[1], data_type) THEN Head(items)[2]
    ELSE next_standard(Tail(items), data_type, default)

map_data_type(data_type) == next_standard(type_mapping, data_type, "string")

---------------------------------------------------------------------------
(* process_table *)

EmptyDict == [k \in {} |-> TRUE]

Y == <<"Y">>

N == <<"N">>

\* A variant of column_definition: nullable unless NULLABLE is "N".
column_definition_unless_n(row) ==
    [name |-> lower(row.COLUMN_NAME),
     data_type |-> map_data_type(row.DATA_TYPE)]
    @@ (IF notna(row.DATA_FORMAT)
        THEN [date_format |-> row.DATA_FORMAT] ELSE EmptyDict)
    @@ (IF row.NULLABLE # N THEN [is_nullable |-> TRUE] ELSE EmptyDict)

\* A variant of column_definition: date_format whatever DATA_FORMAT holds.
column_definition_any_format(row) ==
    [name |-> lower(row.COLUMN_NAME),
     data_type |-> map_data_type(row.DATA_TYPE),
     date_format |-> row.DATA_FORMAT]
    @@ (IF row.NULLABLE = Y THEN [is_nullable |-> TRUE] ELSE EmptyDict)

\* The lambda of df.apply: the Column Definition of one row.
column_definition(row) ==
    [name |-> lower(row.COLUMN_NAME),
     data_type |-> map_data_type(row.DATA_TYPE)]
    @@ (IF notna(row.DATA_FORMAT)
        THEN [date_format |-> row.DATA_FORMAT] ELSE EmptyDict)
    @@ (IF row.NULLABLE = Y THEN [is_nullable |-> TRUE] ELSE EmptyDict)

\* What the lambda raises on a row, <<>> when nothing: a missing COLUMN_NAME
\* is a float, which has no lower(); a missing DATA_TYPE is a float, which
\* `key in data_type` cannot search.
row_exception(row) ==
    IF isna(row.COLUMN_NAME) THEN <<"AttributeError">>
    ELSE IF isna(row.DATA_TYPE) THEN <<"TypeError">>
    ELSE <<>>

\* The exception of the first row that raises, <<>> when none does.
process_table_exception(group) ==
    IF \A i \in 1..Len(group) : row_exception(group[i]) = <<>> THEN <<>>
    ELSE row_exception(group[CHOOSE i \in 1..Len(group) :
            /\ row_exception(group[i]) # <<>>
            /\ \A j \in 1..(i - 1) : row_exception(group[j]) = <<>>])

process_table(group, source) ==
    [name |-> group[1].table_name,
     source |-> source,
     columns |-> [i \in 1..Len(group) |-> column_definition(group[i])],
     primary_key |-> <<"unid">>,
     cdc_column |-> "dml_flag",
     cdc_type |-> "soft"]

---------------------------------------------------------------------------
(* df.groupby *)

group_key(row, by) == [i \in 1..Len(by) |-> row[by[i]]]

RECURSIVE sorted(_)
sorted(keys) ==
    IF keys = {} THEN <<>>
    ELSE LET first == CHOOSE k \in keys : \A other \in keys \ {k} : TupleLess(k, other)
         IN  <<first>> \o sorted(keys \ {first})

\* df.groupby(by): the rows with no missing key (dropna), by key in sorted
\* order (sort), each group keeping the order of its rows in df.
groupby(rows, by) ==
    LET kept == SelectSeq(rows, LAMBDA r : \A i \in 1..Len(by) : notna(r[by[i]]))
        keys == sorted({group_key(kept[i], by) : i \in 1..Len(kept)})
    IN  [g \in 1..Len(keys) |->
            [key |-> keys[g],
             group |-> SelectSeq(kept, LAMBDA r : group_key(r, by) = keys[g])]]

---------------------------------------------------------------------------
(* process_source *)

source_by == <<"FILE_NAME", "DECIMAL_SEPARATOR", "FILE_TYPE", "table_name">>

\* f"source_{file_name}_{decimal_separator}_{file_type}"
source_key(file_name, decimal_separator, file_type) ==
    <<"s", "o", "u", "r", "c", "e", "_">> \o file_name \o <<"_">>
        \o decimal_separator \o <<"_">> \o file_type

partition_pattern == "(\\d+(?:\\.\\d+)?)_(?:\\d+\\D+)$"

source_data(file_name, decimal_separator, file_type) ==
    [load_type |-> "delta",
     file_pattern |-> file_name,
     partition_pattern |-> partition_pattern,
     params |-> [decimal_separator |-> decimal_separator,
                 format |-> lower(file_type)]]

\* The cache after `if source_key not in sources: sources[source_key] = ...`
cache_source(cache, key, data) ==
    IF key \in DOMAIN cache THEN cache ELSE (key :> data) @@ cache


\* A variant of process_group: the group key unpacked with table_name first.
process_group_table_first(cache, list, g) ==
    LET file_name == g.key[2]
        decimal_separator == g.key[3]
        file_type == g.key[4]
        key == source_key(file_name, decimal_separator, file_type)
        after == cache_source(cache, key,
                     source_data(file_name, decimal_separator, file_type))
        exception == process_table_exception(g.group)
    IN  [exception |-> exception,
         sources |-> after,
         tables |-> IF exception # <<>> THEN list
                    ELSE Append(list, process_table(g.group, after[key]))]

\* One iteration of the loop over the groups: the exception process_table
\* raises (<<>> when none), the cache and the list after it.
process_group(cache, list, g) ==
    LET file_name == g.key[1]
        decimal_separator == g.key[2]
        file_type == g.key[3]
        key == source_key(file_name, decimal_separator, file_type)
        after == cache_source(cache, key,
                     source_data(file_name, decimal_separator, file_type))
        exception == process_table_exception(g.group)
    IN  [exception |-> exception,
         sources |-> after,
         tables |-> IF exception # <<>> THEN list
                    ELSE Append(list, process_table(g.group, after[key]))]

---------------------------------------------------------------------------
(* generate_metadata_yaml, generate_gdpr_yaml *)

\* The text yaml.dump writes, standing for the document it serialises.
yaml_dump(document) == [yaml |-> document]

version == 2

metadata(list) == [version |-> version, name |-> "dwh", tables |-> list]

\* Series.str.lower(): a missing value stays missing.
str_lower(v) == IF isna(v) THEN NaN ELSE lower(v)

\* df[df['GDPR_FLAG']] of one group.
flagged(group) == SelectSeq(group, LAMBDA r : r.GDPR_FLAG = True)

\* What df[df['GDPR_FLAG']] raises on one group, <<>> when nothing: an object
\* column holding NaN cannot mask, and a column of other values is taken as a
\* list of column labels.
mask_exception(group) ==
    IF \A i \in 1..Len(group) : group[i].GDPR_FLAG \in {True, False} THEN <<>>
    ELSE IF \A i \in 1..Len(group) : group[i].GDPR_FLAG \in {True, False, NaN}
    THEN <<"ValueError">>
    ELSE <<"KeyError">>

\* What the entry of one group raises: the mask, then .str on a COLUMN_NAME
\* column that holds no str at all (a float column).
entry_exception(rows, group) ==
    IF mask_exception(group) # <<>> THEN mask_exception(group)
    ELSE IF flagged(group) # <<>> /\ \A i \in 1..Len(rows) : isna(rows[i].COLUMN_NAME)
    THEN <<"AttributeError">>
    ELSE <<>>

gdpr_exception(rows) ==
    LET groups == groupby(rows, <<"table_name">>)
    IN  IF \A g \in 1..Len(groups) : entry_exception(rows, groups[g].group) = <<>>
        THEN <<>>
        ELSE entry_exception(rows, groups[CHOOSE g \in 1..Len(groups) :
                /\ entry_exception(rows, groups[g].group) # <<>>
                /\ \A h \in 1..(g - 1) : entry_exception(rows, groups[h].group) = <<>>].group)

gdpr_entry(g) ==
    [name |-> g.key[1],
     personal_data |->
        [hash |-> [i \in 1..Len(flagged(g.group)) |->
                      str_lower(flagged(g.group)[i].COLUMN_NAME)]]]

\* A variant of gdpr: an entry for every table, flagged rows or not.
gdpr_every_table(rows) ==
    LET kept == groupby(rows, <<"table_name">>)
    IN  [i \in 1..Len(kept) |-> gdpr_entry(kept[i])]

\* The list comprehension of generate_gdpr_yaml.
gdpr(rows) ==
    LET kept == SelectSeq(groupby(rows, <<"table_name">>),
                          LAMBDA g : flagged(g.group) # <<>>)
    IN  [i \in 1..Len(kept) |-> gdpr_entry(kept[i])]

---------------------------------------------------------------------------
(* main *)

csv_file_path == "metadata.csv"
metadata_yaml_path == "metadata.yaml"
gdpr_yaml_path == "gdpr.yaml"

Paths == {csv_file_path, metadata_yaml_path, gdpr_yaml_path}

Absent == [exists |-> FALSE, content |-> <<>>]

\* A variant of main_body: the GDPR file saved before the metadata file.
main_body_gdpr_first ==
    <<"read_csv", "generate_metadata_yaml", "generate_gdpr_yaml",
      "save_gdpr_yaml", "save_metadata_yaml">>

\* A variant of main_body: the metadata file saved as soon as it is generated.
main_body_save_early ==
    <<"read_csv", "generate_metadata_yaml", "save_metadata_yaml",
      "generate_gdpr_yaml", "save_gdpr_yaml">>

\* The statements of main, in order.
main_body ==
    <<"read_csv", "generate_metadata_yaml", "generate_gdpr_yaml",
      "save_metadata_yaml", "save_gdpr_yaml">>

Running == raised = <<>> /\ pc \in 1..Len(main_body)

\* df = read_csv(csv_file_path)
ReadCsv ==
    /\ Running
    /\ main_body[pc] = "read_csv"
    /\ IF fs[csv_file_path].exists
       THEN /\ df' = <<read_csv(fs[csv_file_path].content)>>
            /\ pc' = pc + 1
            /\ UNCHANGED raised
       ELSE /\ raised' = <<"FileNotFoundError", "read_csv">>
            /\ UNCHANGED <<df, pc>>
    /\ UNCHANGED <<fs, step, metadata_yaml, gdpr_yaml, grouped, sources, tables,
                   arg, ret>>

\* generate_metadata_yaml calls process_source, up to its groupby.
GroupBy ==
    /\ Running
    /\ main_body[pc] = "generate_metadata_yaml"
    /\ step = "call"
    /\ tables' = <<>>
    /\ sources' = EmptyDict
    /\ grouped' = groupby(df[1], source_by)
    /\ step' = "loop"
    /\ UNCHANGED <<fs, pc, raised, df, metadata_yaml, gdpr_yaml, arg, ret>>

\* One iteration of process_source's loop.
ProcessGroup ==
    /\ Running
    /\ main_body[pc] = "generate_metadata_yaml"
    /\ step = "loop"
    /\ grouped # <<>>
    /\ LET after == process_group(sources, tables, Head(grouped))
       IN  /\ sources' = after.sources
           /\ tables' = after.tables
           /\ IF after.exception # <<>>
              THEN /\ raised' = <<after.exception[1], "generate_metadata_yaml">>
                   /\ UNCHANGED grouped
              ELSE /\ grouped' = Tail(grouped)
                   /\ UNCHANGED raised
    /\ UNCHANGED <<fs, pc, step, df, metadata_yaml, gdpr_yaml, arg, ret>>

\* process_source returns; generate_metadata_yaml dumps the document.
DumpMetadata ==
    /\ Running
    /\ main_body[pc] = "generate_metadata_yaml"
    /\ step = "loop"
    /\ grouped = <<>>
    /\ metadata_yaml' = <<yaml_dump(metadata(tables))>>
    /\ pc' = pc + 1
    /\ step' = "call"
    /\ UNCHANGED <<fs, raised, df, gdpr_yaml, grouped, sources, tables, arg, ret>>

\* gdpr_yaml = generate_gdpr_yaml(df)
GenerateGdpr ==
    /\ Running
    /\ main_body[pc] = "generate_gdpr_yaml"
    /\ IF gdpr_exception(df[1]) # <<>>
       THEN /\ raised' = <<gdpr_exception(df[1])[1], "generate_gdpr_yaml">>
            /\ UNCHANGED <<gdpr_yaml, pc>>
       ELSE /\ gdpr_yaml' = <<yaml_dump(gdpr(df[1]))>>
            /\ pc' = pc + 1
            /\ UNCHANGED raised
    /\ UNCHANGED <<fs, step, df, metadata_yaml, grouped, sources, tables, arg, ret>>

\* The arguments of the save_yaml call of a statement of main.
save_path(statement) ==
    IF statement = "save_metadata_yaml" THEN metadata_yaml_path ELSE gdpr_yaml_path

save_content(statement) ==
    IF statement = "save_metadata_yaml" THEN metadata_yaml[1] ELSE gdpr_yaml[1]

IsSave(statement) == statement \in {"save_metadata_yaml", "save_gdpr_yaml"}

\* save_yaml: open(file_path, 'w') creates or truncates the file, or raises
\* and leaves it as it was.
SaveOpen ==
    /\ Running
    /\ IsSave(main_body[pc])
    /\ step = "call"
    /\ \E ok \in BOOLEAN :
        IF ok
        THEN /\ fs' = [fs EXCEPT ![save_path(main_body[pc])] =
                            [exists |-> TRUE, content |-> <<>>]]
             /\ step' = "write"
             /\ UNCHANGED raised
        ELSE /\ raised' = <<"OSError", main_body[pc]>>
             /\ UNCHANGED <<fs, step>>
    /\ UNCHANGED <<pc, df, metadata_yaml, gdpr_yaml, grouped, sources, tables,
                   arg, ret>>

\* save_yaml: file.write(content) and the close of the with block, or a
\* failure that leaves the file truncated.
SaveWrite ==
    /\ Running
    /\ IsSave(main_body[pc])
    /\ step = "write"
    /\ \E ok \in BOOLEAN :
        IF ok
        THEN /\ fs' = [fs EXCEPT ![save_path(main_body[pc])] =
                            [exists |-> TRUE,
                             content |-> <<save_content(main_body[pc])>>]]
             /\ pc' = pc + 1
             /\ step' = "call"
             /\ UNCHANGED raised
        ELSE /\ raised' = <<"OSError", main_body[pc]>>
             /\ UNCHANGED <<fs, pc, step>>
    /\ UNCHANGED <<df, metadata_yaml, gdpr_yaml, grouped, sources, tables, arg, ret>>

---------------------------------------------------------------------------
(* The inputs of a run of main: the rows of metadata.csv. *)

RECURSIVE SeqsUpTo(_, _)
SeqsUpTo(S, n) ==
    IF n = 0 THEN {<<>>}
    ELSE LET shorter == SeqsUpTo(S, n - 1)
         IN  shorter \cup {Append(q, x) : q \in {r \in shorter : Len(r) = n - 1}, x \in S}

TableNames == {<<"A">>, <<"B">>}

\* FILE_NAME, DECIMAL_SEPARATOR, FILE_TYPE: the first two differ and give one
\* source key; the last has no file name.
SourceCells ==
    { << <<"f", "_", "x">>, <<",">>, <<"C", "S", "V">> >>,
      << <<"f">>, <<"x", "_", ",">>, <<"C", "S", "V">> >>,
      << <<"f">>, <<",">>, <<"T", "x", "t">> >>,
      << <<>>, <<",">>, <<"C", "S", "V">> >> }

\* COLUMN_NAME, DATA_TYPE, DATA_FORMAT, NULLABLE, GDPR_FLAG: a column that is
\* not personal data, one that is, and one whose name pandas reads as missing
\* (NA) and whose flag is empty.
ColumnCells ==
    { << <<"I", "D">>, <<"N", "U", "M", "B", "E", "R">>, <<>>, <<"N">>,
         <<"F", "a", "l", "s", "e">> >>,
      << <<"B", "o", "r", "n">>, <<"D", "A", "T", "E">>, <<"Y", "M", "D">>, <<"Y">>,
         <<"T", "r", "u", "e">> >>,
      << <<"N", "A">>, <<"C", "L", "O", "B">>, <<>>, <<"N">>, <<>> >> }

CellRows ==
    { [table_name |-> t, COLUMN_NAME |-> c[1], DATA_TYPE |-> c[2],
       DATA_FORMAT |-> c[3], NULLABLE |-> c[4], FILE_NAME |-> s[1],
       DECIMAL_SEPARATOR |-> s[2], FILE_TYPE |-> s[3], GDPR_FLAG |-> c[5]] :
      t \in TableNames, s \in SourceCells, c \in ColumnCells }

CsvFiles ==
    {Absent} \cup {[exists |-> TRUE, content |-> cells] : cells \in SeqsUpTo(CellRows, MaxRows)}

Init ==
    /\ fs \in {[p \in Paths |-> IF p = csv_file_path THEN file ELSE Absent] :
                file \in CsvFiles}
    /\ pc = 1
    /\ step = "call"
    /\ raised = <<>>
    /\ df = <<>>
    /\ metadata_yaml = <<>>
    /\ gdpr_yaml = <<>>
    /\ grouped = <<>>
    /\ sources = <<>>
    /\ tables = <<>>
    /\ arg = <<>>
    /\ ret = <<>>

Next ==
    \/ ReadCsv
    \/ GroupBy
    \/ ProcessGroup
    \/ DumpMetadata
    \/ GenerateGdpr
    \/ SaveOpen
    \/ SaveWrite

Spec == Init /\ [][Next]_vars


---------------------------------------------------------------------------
(* Single calls of map_data_type and of process_table. *)

TypeTokens ==
    { <<"V", "A", "R", "C", "H", "A", "R", "2">>,
      <<"N", "U", "M", "B", "E", "R">>,
      <<"D", "A", "T", "E">>,
      <<"N", "U", "M">>,
      <<"B", "E", "R">>,
      <<"d", "a", "t", "e">>,
      <<"(", "5", "0", ")">> }

RECURSIVE Concat(_)
Concat(parts) == IF parts = <<>> THEN <<>> ELSE Head(parts) \o Concat(Tail(parts))

\* The raw data type strings: up to MaxParts tokens in a row.
DataTypes == {Concat(parts) : parts \in SeqsUpTo(TypeTokens, MaxParts)}

\* The rows of a DataFrame handed to process_table: parsed values.
TableRows ==
    { [table_name |-> <<"A">>, COLUMN_NAME |-> c, DATA_TYPE |-> t,
       DATA_FORMAT |-> f, NULLABLE |-> n, FILE_NAME |-> <<"f">>,
       DECIMAL_SEPARATOR |-> <<",">>, FILE_TYPE |-> <<"C", "S", "V">>,
       GDPR_FLAG |-> True] :
      c \in {<<"E", "m", "a", "i", "l">>, NaN},
      t \in {<<"N", "U", "M", "B", "E", "R", "(", "5", ")">>, NaN},
      f \in {<<"Y", "M", "D">>, NaN},
      n \in {<<"Y">>, <<"N">>, <<"y">>, NaN} }

Calls ==
    {[function |-> "map_data_type", data_type |-> t] : t \in DataTypes}
    \cup {[function |-> "process_table", df |-> g,
           source |-> source_data(<<"f">>, <<",">>, <<"C", "S", "V">>)] :
          g \in SeqsUpTo(TableRows, MaxRows) \ {<<>>}}

InitCall ==
    /\ arg \in {<<call>> : call \in Calls}
    /\ ret = <<>>
    /\ raised = <<>>
    /\ pc = 0
    /\ step = "call"
    /\ fs = [p \in Paths |-> Absent]
    /\ df = <<>>
    /\ metadata_yaml = <<>>
    /\ gdpr_yaml = <<>>
    /\ grouped = <<>>
    /\ sources = <<>>
    /\ tables = <<>>

Called == arg # <<>> /\ ret = <<>> /\ raised = <<>>

CallMapDataType ==
    /\ Called
    /\ arg[1].function = "map_data_type"
    /\ ret' = <<map_data_type(arg[1].data_type)>>
    /\ UNCHANGED <<fs, pc, step, raised, df, metadata_yaml, gdpr_yaml, grouped,
                   sources, tables, arg>>

CallProcessTable ==
    /\ Called
    /\ arg[1].function = "process_table"
    /\ IF process_table_exception(arg[1].df) # <<>>
       THEN /\ raised' = <<process_table_exception(arg[1].df)[1], "process_table">>
            /\ UNCHANGED ret
       ELSE /\ ret' = <<process_table(arg[1].df, arg[1].source)>>
            /\ UNCHANGED raised
    /\ UNCHANGED <<fs, pc, step, df, metadata_yaml, gdpr_yaml, grouped,
                   sources, tables, arg>>

NextCall == CallMapDataType \/ CallProcessTable

SpecCall == InitCall /\ [][NextCall]_vars


---------------------------------------------------------------------------
(* Properties. *)

Range(q) == {q[i] : i \in 1..Len(q)}

\* process_source has returned and the metadata document has been dumped.
MetadataGenerated == metadata_yaml # <<>>

\* The FILE_NAME, DECIMAL_SEPARATOR and FILE_TYPE of a group key.
KeyTriple(key) == <<key[1], key[2], key[3]>>

\* The groups process_source iterates: tables[i] is built from the i-th.
SourceGroups == groupby(df[1], source_by)

\* The distinct table_name values of the input.
InputTableNames == {row.table_name : row \in Range(df[1])} \ {NaN}

\* The rows of the input with a table_name, in input order.
RowsOf(name) == SelectSeq(df[1], LAMBDA row : row.table_name = name)

\* No row of the input misses one of the four grouping fields.
NoMissingKey == \A row \in Range(df[1]) : \A i \in 1..Len(source_by) : notna(row[source_by[i]])

\* C1: the tables list of the metadata document holds exactly one entry per
\* distinct table_name of the input: its length is the number of distinct
\* table_name values, also when rows of one table_name carry different
\* (FILE_NAME, DECIMAL_SEPARATOR, FILE_TYPE) values.  Stated on the inputs
\* whose rows all carry the four grouping fields.
C1_OneTablePerTableName ==
    (MetadataGenerated /\ NoMissingKey) =>
        Len(metadata_yaml[1].yaml.tables) = Cardinality(InputTableNames)

\* C2: two Table Definitions of one run whose rows share the same (FILE_NAME,
\* DECIMAL_SEPARATOR, FILE_TYPE) carry source descriptors equal in every
\* field.
C2_SameTripleSameDescriptor ==
    df # <<>> =>
        \A i, j \in 1..Len(tables) :
            KeyTriple(SourceGroups[i].key) = KeyTriple(SourceGroups[j].key) =>
                /\ tables[i].source.load_type = tables[j].source.load_type
                /\ tables[i].source.file_pattern = tables[j].source.file_pattern
                /\ tables[i].source.partition_pattern
                       = tables[j].source.partition_pattern
                /\ tables[i].source.params.decimal_separator
                       = tables[j].source.params.decimal_separator
                /\ tables[i].source.params.format = tables[j].source.params.format

\* C2's case: two Table Definitions built from rows of one triple.
C2_Witness ==
    /\ df # <<>>
    /\ \E i, j \in 1..Len(tables) :
        /\ i # j
        /\ KeyTriple(SourceGroups[i].key) = KeyTriple(SourceGroups[j].key)

\* The GDPR entries of the dumped document.
GdprEntries == gdpr_yaml[1].yaml

\* The lowercased COLUMN_NAME values of a table's flagged rows, in input order.
FlaggedNames(name) ==
    LET rows == SelectSeq(RowsOf(name), LAMBDA row : row.GDPR_FLAG = True)
    IN  [i \in 1..Len(rows) |-> lower(rows[i].COLUMN_NAME)]

TableReturned == arg # <<>> /\ arg[1].function = "process_table" /\ ret # <<>>

\* C4: the Column Definition of a row has the key is_nullable, with value
\* true, exactly when the row's NULLABLE is "Y"; for any other value ("N",
\* missing, "y") the key is absent, and is_nullable is never false.
C4_IsNullable ==
    TableReturned =>
        \A i \in 1..Len(arg[1].df) :
            /\ ("is_nullable" \in DOMAIN ret[1].columns[i])
                   <=> (arg[1].df[i].NULLABLE = <<"Y">>)
            /\ ("is_nullable" \in DOMAIN ret[1].columns[i])
                   => (ret[1].columns[i]["is_nullable"] = TRUE)

\* C4's case: a row with NULLABLE "Y" and a row with another value.
C4_Witness ==
    /\ TableReturned
    /\ \E i, j \in 1..Len(arg[1].df) :
        /\ arg[1].df[i].NULLABLE = <<"Y">>
        /\ "is_nullable" \in DOMAIN ret[1].columns[i]
        /\ arg[1].df[j].NULLABLE = <<"y">>
        /\ "is_nullable" \notin DOMAIN ret[1].columns[j]

\* C5: the Column Definition of a row has the key date_format, equal to the
\* row's DATA_FORMAT, when that value is not missing, and has no date_format
\* key when it is missing.
C5_DateFormat ==
    TableReturned =>
        \A i \in 1..Len(arg[1].df) :
            IF arg[1].df[i].DATA_FORMAT = NaN
            THEN "date_format" \notin DOMAIN ret[1].columns[i]
            ELSE /\ "date_format" \in DOMAIN ret[1].columns[i]
                 /\ ret[1].columns[i]["date_format"] = arg[1].df[i].DATA_FORMAT

\* C5's case: a row with a DATA_FORMAT and a row without.
C5_Witness ==
    /\ TableReturned
    /\ \E i, j \in 1..Len(arg[1].df) :
        /\ arg[1].df[i].DATA_FORMAT = <<"Y", "M", "D">>
        /\ "date_format" \in DOMAIN ret[1].columns[i]
        /\ arg[1].df[j].DATA_FORMAT = NaN
        /\ "date_format" \notin DOMAIN ret[1].columns[j]

\* A call of map_data_type has returned.
MapReturned == arg # <<>> /\ arg[1].function = "map_data_type" /\ ret # <<>>

\* s holds key as a contiguous run of characters: s = before key after.
Occurs(key, s) ==
    \E before, after \in 0..Len(s) :
        /\ before + Len(key) + after = Len(s)
        /\ \A k \in 1..Len(key) : s[before + k] = key[k]

KeyVARCHAR2 == <<"V", "A", "R", "C", "H", "A", "R", "2">>
KeyNUMBER == <<"N", "U", "M", "B", "E", "R">>
KeyDATE == <<"D", "A", "T", "E">>

\* C6: map_data_type returns the canonical name of the first of VARCHAR2,
\* NUMBER, DATE (in that order) that occurs as a substring of the input, and
\* "string" when none of the three occurs.
C6_FirstDeclaredKeyWins ==
    MapReturned =>
        ret[1] = IF Occurs(KeyVARCHAR2, arg[1].data_type) THEN "string"
                 ELSE IF Occurs(KeyNUMBER, arg[1].data_type) THEN "decimal(38,0)"
                 ELSE IF Occurs(KeyDATE, arg[1].data_type) THEN "date"
                 ELSE "string"

\* C6's case: an input holding two keys, mapped by the earlier declared one.
C6_Witness ==
    /\ MapReturned
    /\ Occurs(KeyDATE, arg[1].data_type)
    /\ Occurs(KeyNUMBER, arg[1].data_type)
    /\ ret[1] = "decimal(38,0)"

\* C7: the columns of every Table Definition are one Column Definition per
\* input row of that table, in input order, each named by the lowercased
\* COLUMN_NAME of its row: no row is dropped and none is duplicated.  Stated
\* on the inputs whose rows all carry the four grouping fields.
C7_OneColumnPerRow ==
    (MetadataGenerated /\ NoMissingKey) =>
        \A t \in 1..Len(tables) :
            /\ Len(tables[t].columns) = Len(RowsOf(tables[t].name))
            /\ \A c \in 1..Len(tables[t].columns) :
                  tables[t].columns[c].name
                      = lower(RowsOf(tables[t].name)[c].COLUMN_NAME)

\* The file holds the whole of a generated text.
Written(path, text) == fs[path] = [exists |-> TRUE, content |-> text]

\* The metadata file holds the whole generated metadata text.
MetadataSaved == metadata_yaml # <<>> /\ Written(metadata_yaml_path, metadata_yaml)

\* C8: the metadata file is written before the GDPR file and no step undoes
\* a completed write: the GDPR file is not touched before the metadata file
\* holds its full content, no step changes the metadata file once it does,
\* and a run that fails in the save of the GDPR file leaves the metadata file
\* whole and the GDPR file without content.
C8_MetadataWrittenFirst ==
    /\ [](fs[gdpr_yaml_path].exists => MetadataSaved)
    /\ []((raised # <<>> /\ raised[2] = "save_gdpr_yaml") =>
             (MetadataSaved /\ fs[gdpr_yaml_path].content = <<>>))
    /\ [][MetadataSaved =>
             (fs'[metadata_yaml_path] = fs[metadata_yaml_path]
              /\ metadata_yaml' = metadata_yaml)]_vars

\* C8's case: the run failed saving the GDPR file, after the metadata file.
C8_Witness ==
    /\ raised # <<>>
    /\ raised[2] = "save_gdpr_yaml"
    /\ MetadataSaved
    /\ metadata_yaml[1].yaml.tables # <<>>

\* C9: every Table Definition's descriptor describes the table's own triple:
\* file_pattern is its FILE_NAME, params.decimal_separator its
\* DECIMAL_SEPARATOR and params.format its lowercased FILE_TYPE, also when two
\* triples give one key string.
C9_DescriptorOfOwnTriple ==
    df # <<>> =>
        \A t \in 1..Len(tables) :
            /\ tables[t].source.file_pattern = SourceGroups[t].key[1]
            /\ tables[t].source.params.decimal_separator = SourceGroups[t].key[2]
            /\ tables[t].source.params.format = lower(SourceGroups[t].key[3])

\* C10: no output file is written before the input is read and both YAML
\* texts are generated: a failure in read_csv, generate_metadata_yaml or
\* generate_gdpr_yaml leaves both output paths untouched.
C10_NoOutputBeforeBothGenerated ==
    /\ (fs[metadata_yaml_path] # Absent \/ fs[gdpr_yaml_path] # Absent) =>
          df # <<>> /\ metadata_yaml # <<>> /\ gdpr_yaml # <<>>
    /\ (raised # <<>> /\ raised[2] \in {"read_csv", "generate_metadata_yaml",
                                         "generate_gdpr_yaml"}) =>
          fs[metadata_yaml_path] = Absent /\ fs[gdpr_yaml_path] = Absent

\* C10's case: generate_gdpr_yaml failed after the metadata text was
\* generated, and nothing was written.
C10_Witness ==
    /\ raised # <<>>
    /\ raised[2] = "generate_gdpr_yaml"
    /\ metadata_yaml # <<>>
    /\ metadata_yaml[1].yaml.tables # <<>>
    /\ fs[metadata_yaml_path] = Absent

============================================================================
